---- MODULE Spec2Model ----
(***************************************************************************)
(* VoigtFit/container/components.py: the Component class, and the two      *)
(* functions that build an lmfit Parameters set, load_components_from_file *)
(* and components_from_array.                                              *)
(*                                                                         *)
(* Real numbers are fixed-point integers counting halves: the literal 1 of *)
(* the source is One, and 1 stands for 0.5.  Python strings are sequences  *)
(* of one-character strings; None, True and False are the strings "None", *)
(* "True" and "False".                                                     *)
(***************************************************************************)
EXTENDS Integers, Sequences, FiniteSets, TLC

VARIABLES
    z, b, logN, rf,       \* Component._z, ._b, ._logN, ._rf
    options,              \* Component.options, a dict keyed by strings
    b_in,                 \* history: the last b handed to __init__ or to the b setter
    call,                 \* history: the last call made on the Component
    ret,                  \* what the last call returned ("None") or raised
    nops,                 \* number of calls made on the Component
    file,                 \* the lines of the file load_components_from_file reads
    lineno,               \* number of lines of the file consumed by the for loop
    components_to_add,    \* load_components_from_file's local list
    arr_ion, arr_z, arr_b, arr_logN, arr_rf,   \* components_from_array's arguments
    num,                  \* components_from_array's enumerate counter
    pars,                 \* the Parameters object being built
    pc                    \* position / outcome of the function that is running

compVars == <<z, b, logN, rf, options, b_in, call, ret, nops>>
loadVars == <<file, lineno, components_to_add>>
arrVars == <<arr_ion, arr_z, arr_b, arr_logN, arr_rf, num>>
vars == <<compVars, loadVars, arrVars, pars, pc>>

----------------------------------------------------------------------------
(* Bounds and input sets *)

MaxOps == 2       \* calls made on one Component after its construction
MaxLines == 2     \* lines in a file
MaxN == 2         \* length of an array handed to components_from_array
MaxTokens == 11   \* tokens on a line of a file

One == 2          \* the real number 1 (two halves)

RealVals == {-3, 0, 1, One, One + 1}     \* -1.5, 0, 0.5, 1, 1.5
PlainVals == {0, 3}                      \* values for z and logN
OptVals == {"True", "None"}              \* values handed to the option setters

VarKeys == {"var_z", "var_b", "var_N", "var_rf"}
TieKeys == {"tie_z", "tie_b", "tie_N", "tie_rf"}
OptionKeys == VarKeys \cup TieKeys
AnyKeys == OptionKeys \cup {"foo"}       \* keys handed to get_option / set_option

----------------------------------------------------------------------------
(* Component *)

Abs(val) == IF val < 0 THEN -val ELSE val

\* Component.__init__: the options dict built from the keyword arguments
InitOptions(var_z, var_b, var_N, var_rf, tie_z, tie_b, tie_N, tie_rf) ==
    [k \in OptionKeys |->
        CASE k = "var_z" -> var_z [] k = "var_b" -> var_b
          [] k = "var_N" -> var_N [] k = "var_rf" -> var_rf
          [] k = "tie_z" -> tie_z [] k = "tie_b" -> tie_b
          [] k = "tie_N" -> tie_N [] k = "tie_rf" -> tie_rf]

\* @b.setter: the value stored in _b
b_setter(val) == IF val < 0 THEN Abs(val) ELSE val

\* rf setter that forgets the upper boundary
rf_setter_NoUpperClamp(cur, val) == IF val < 0 THEN 0 ELSE val

\* @rf.setter: the value stored in _rf (cur is the _rf held before)
rf_setter(cur, val) ==
    IF val < 0 \/ val > One
    THEN IF val > One THEN One
         ELSE IF val < 0 THEN 0
         ELSE cur
    ELSE val

\* self.options[key] = val, as Python's dict assignment: an absent key is inserted
DictSet(d, key, val) ==
    [k \in DOMAIN d \cup {key} |-> IF k = key THEN val ELSE d[k]]

\* the tie_* / var_* property setters
option_setter(opts, key, val) == DictSet(opts, key, val)

\* set_option that also resets the paired flag of the same parameter
set_option_ResetsPair(opts, key, value) ==
    LET pair == CASE key = "tie_z" -> "var_z" [] key = "tie_b" -> "var_b"
                  [] key = "tie_N" -> "var_N" [] key = "tie_rf" -> "var_rf"
                  [] OTHER -> key
    IN  DictSet(DictSet(opts, pair, "False"), key, value)

\* Component.set_option
set_option(opts, key, value) == DictSet(opts, key, value)

\* Component.get_option: the value, or the KeyError of the dict lookup
get_option(opts, key) == IF key \in DOMAIN opts THEN opts[key] ELSE "KeyError"

Called(op, key, val, n) == [op |-> op, key |-> key, val |-> val, num |-> n]

\* Component(z, b, logN, rf): the four values are stored as given, the eight
\* options take their keyword defaults
ComponentInit ==
    /\ z \in PlainVals /\ logN \in PlainVals
    /\ b \in RealVals /\ rf \in RealVals
    /\ b_in = b
    /\ options = InitOptions("True", "True", "True", "True",
                             "None", "None", "None", "None")
    /\ call = Called("__init__", "-", "-", 0)
    /\ ret = "-"
    /\ nops = 0

\* the Component while one of the bridge functions runs (they use none)
ComponentIdle ==
    /\ z = 0 /\ b = 0 /\ logN = 0 /\ rf = 0 /\ b_in = 0
    /\ options = InitOptions("True", "True", "True", "True",
                             "None", "None", "None", "None")
    /\ call = Called("-", "-", "-", 0)
    /\ ret = "-"
    /\ nops = 0

\* one call on the Component; result is what it returns or raises
Step(op, key, val, n, result) ==
    /\ nops < MaxOps
    /\ nops' = nops + 1
    /\ call' = Called(op, key, val, n)
    /\ ret' = result
    /\ UNCHANGED <<loadVars, arrVars, pars, pc>>

SetZ ==
    \E val \in PlainVals :
        /\ Step("z", "-", "-", val, "None")
        /\ z' = val
        /\ UNCHANGED <<b, logN, rf, options, b_in>>

SetB ==
    \E val \in RealVals :
        /\ Step("b", "-", "-", val, "None")
        /\ b' = b_setter(val)
        /\ b_in' = val
        /\ UNCHANGED <<z, logN, rf, options>>

SetLogN ==
    \E val \in PlainVals :
        /\ Step("logN", "-", "-", val, "None")
        /\ logN' = val
        /\ UNCHANGED <<z, b, rf, options, b_in>>

SetRf ==
    \E val \in RealVals :
        /\ Step("rf", "-", "-", val, "None")
        /\ rf' = rf_setter(rf, val)
        /\ UNCHANGED <<z, b, logN, options, b_in>>

SetProperty(key) ==
    \E val \in OptVals :
        /\ Step("property", key, val, 0, "None")
        /\ options' = option_setter(options, key, val)
        /\ UNCHANGED <<z, b, logN, rf, b_in>>

SetTieZ == SetProperty("tie_z")
SetTieB == SetProperty("tie_b")
SetTieN == SetProperty("tie_N")
SetTieRf == SetProperty("tie_rf")
SetVarZ == SetProperty("var_z")
SetVarB == SetProperty("var_b")
SetVarN == SetProperty("var_N")
SetVarRf == SetProperty("var_rf")

SetOption ==
    \E key \in AnyKeys, value \in OptVals :
        /\ Step("set_option", key, value, 0, "None")
        /\ options' = set_option(options, key, value)
        /\ UNCHANGED <<z, b, logN, rf, b_in>>

GetOption ==
    \E key \in AnyKeys :
        /\ Step("get_option", key, "-", 0, get_option(options, key))
        /\ UNCHANGED <<z, b, logN, rf, options, b_in>>

----------------------------------------------------------------------------
(* Python string operations used by the two bridge functions.  The alphabet *)
(* of the modelled files is the digits, "-", "A", "x", "*", "#", " " and    *)
(* the newline; over it int() and float() accept an optional "-" followed   *)
(* by one or more digits and nothing else.                                  *)

Digits == <<"0", "1", "2", "3", "4", "5", "6", "7", "8", "9">>
Whitespace == {" ", "\n"}

IsDigit(c) == \E d \in 1..Len(Digits) : Digits[d] = c
DigitVal(c) == (CHOOSE d \in 1..Len(Digits) : Digits[d] = c) - 1

RECURSIVE NatToStr(_)
NatToStr(n) ==
    IF n < Len(Digits) THEN <<Digits[n + 1]>>
    ELSE NatToStr(n \div Len(Digits)) \o <<Digits[(n % Len(Digits)) + 1]>>

\* '%i' % n
FormatInt(n) == IF n < 0 THEN <<"-">> \o NatToStr(-n) ELSE NatToStr(n)

RECURSIVE DigitsVal(_)
DigitsVal(s) ==
    IF s = <<>> THEN 0
    ELSE DigitsVal(SubSeq(s, 1, Len(s) - 1)) * Len(Digits) + DigitVal(s[Len(s)])

Unsigned(tok) == IF tok # <<>> /\ tok[1] = "-" THEN Tail(tok) ELSE tok

\* whether int(tok) / float(tok) returns; otherwise it raises ValueError
IsNumber(tok) ==
    /\ Unsigned(tok) # <<>>
    /\ \A i \in 1..Len(Unsigned(tok)) : IsDigit(Unsigned(tok)[i])

\* int(tok)
ParseInt(tok) ==
    IF tok[1] = "-" THEN -DigitsVal(Unsigned(tok)) ELSE DigitsVal(Unsigned(tok))

\* float(tok), in halves
ParseFloat(tok) == One * ParseInt(tok)

RECURSIVE LStrip(_)
LStrip(s) == IF s # <<>> /\ s[1] \in Whitespace THEN LStrip(Tail(s)) ELSE s

RECURSIVE RStrip(_)
RStrip(s) ==
    IF s # <<>> /\ s[Len(s)] \in Whitespace
    THEN RStrip(SubSeq(s, 1, Len(s) - 1)) ELSE s

\* line.strip()
StrStrip(line) == RStrip(LStrip(line))

\* line.split(): the maximal runs of non-whitespace characters
RECURSIVE SplitFrom(_, _, _)
SplitFrom(s, word, toks) ==
    IF s = <<>> THEN (IF word = <<>> THEN toks ELSE Append(toks, word))
    ELSE IF s[1] \in Whitespace
         THEN SplitFrom(Tail(s), <<>>, IF word = <<>> THEN toks ELSE Append(toks, word))
         ELSE SplitFrom(Tail(s), Append(word, s[1]), toks)

StrSplit(line) == SplitFrom(line, <<>>, <<>>)

\* ion.replace('*', 'x')
ReplaceStar(ion) == [i \in 1..Len(ion) |-> IF ion[i] = "*" THEN "x" ELSE ion[i]]

\* '<field>%i_%s' % (n, ion)
ParName(field, n, ion) == field \o FormatInt(n) \o <<"_">> \o ion

FieldZ == <<"z">>
FieldB == <<"b">>
FieldN == <<"l", "o", "g", "N">>
FieldRf == <<"r", "f">>

----------------------------------------------------------------------------
(* lmfit.Parameters as the source uses it: an ordered mapping from a name to *)
(* a value and a stderr.  A stderr that was never set is <<>> (None), a set *)
(* one is <<err>>.                                                          *)

HasName(p, name) == \E k \in 1..Len(p) : p[k].name = name

\* pars.add(name, value=value): a new entry, or a fresh one in place of the old
ParametersAdd(p, name, value) ==
    LET entry == [name |-> name, value |-> value, stderr |-> <<>>]
    IN  IF HasName(p, name)
        THEN [k \in 1..Len(p) |-> IF p[k].name = name THEN entry ELSE p[k]]
        ELSE Append(p, entry)

\* pars[name].stderr = err
SetStderr(p, name, err) ==
    [k \in 1..Len(p) |->
        IF p[k].name = name THEN [p[k] EXCEPT !.stderr = <<err>>] ELSE p[k]]

----------------------------------------------------------------------------
(* load_components_from_file *)

TokenCount == 8     \* elif len(pars) == 8
FieldsRead == 10    \* pars[0] .. pars[9] are read from a matching line

\* The conversions of one matching line, in the order the source makes them:
\* pars[k-1] raises IndexError past the end of the list, int() and float()
\* raise ValueError; pars[1], the ion, is taken as it is.
RECURSIVE ReadFields(_, _)
ReadFields(toks, k) ==
    IF k > FieldsRead THEN "ok"
    ELSE IF k > Len(toks) THEN "IndexError"
    ELSE IF k # 2 /\ ~IsNumber(toks[k]) THEN "ValueError"
    ELSE ReadFields(toks, k + 1)

\* the list appended to components_to_add
LoadedComponent(toks) ==
    [num |-> ParseInt(toks[1]), ion |-> toks[2],
     z |-> ParseFloat(toks[3]), z_err |-> ParseFloat(toks[4]),
     b |-> ParseFloat(toks[5]), b_err |-> ParseFloat(toks[6]),
     logN |-> ParseFloat(toks[7]), logN_err |-> ParseFloat(toks[8]),
     rf |-> ParseFloat(toks[9]), rf_err |-> ParseFloat(toks[10])]

\* one pass of the second loop: four entries and their stderr
AddLoaded(p, comp) ==
    LET ion == ReplaceStar(comp.ion)
        z_name == ParName(FieldZ, comp.num, ion)
        b_name == ParName(FieldB, comp.num, ion)
        N_name == ParName(FieldN, comp.num, ion)
        rf_name == ParName(FieldRf, comp.num, ion)
        p1 == ParametersAdd(p, z_name, comp.z)
        p2 == ParametersAdd(p1, b_name, comp.b)
        p3 == ParametersAdd(p2, N_name, comp.logN)
        p4 == ParametersAdd(p3, rf_name, comp.rf)
        p5 == SetStderr(p4, z_name, comp.z_err)
        p6 == SetStderr(p5, b_name, comp.b_err)
        p7 == SetStderr(p6, N_name, comp.logN_err)
    IN  SetStderr(p7, rf_name, comp.rf_err)

RECURSIVE BuildParameters(_, _)
BuildParameters(p, comps) ==
    IF comps = <<>> THEN p
    ELSE BuildParameters(AddLoaded(p, Head(comps)), Tail(comps))

\* one pass of the loop over parameters.readlines()
ReadLine ==
    /\ pc = "reading"
    /\ lineno < Len(file)
    /\ lineno' = lineno + 1
    /\ LET line == StrStrip(file[lineno + 1])
           toks == StrSplit(line)
       IN  IF Len(line) = 0 THEN UNCHANGED <<components_to_add, pc>>
           ELSE IF line[1] = "#" THEN UNCHANGED <<components_to_add, pc>>
           ELSE IF Len(toks) = TokenCount
                THEN IF ReadFields(toks, 1) = "ok"
                     THEN /\ components_to_add' =
                                Append(components_to_add, LoadedComponent(toks))
                          /\ pc' = pc
                     ELSE /\ pc' = ReadFields(toks, 1)
                          /\ UNCHANGED components_to_add
                ELSE UNCHANGED <<components_to_add, pc>>
    /\ UNCHANGED <<compVars, file, arrVars, pars>>

\* the second loop and the return
ReturnParameters ==
    /\ pc = "reading"
    /\ lineno = Len(file)
    /\ pars' = BuildParameters(<<>>, components_to_add)
    /\ pc' = "done"
    /\ UNCHANGED <<compVars, loadVars, arrVars>>

(* the files read *)

RECURSIVE Join(_)
Join(toks) ==
    IF toks = <<>> THEN <<>>
    ELSE IF Len(toks) = 1 THEN toks[1]
    ELSE toks[1] \o <<" ">> \o Join(Tail(toks))

IndexTokens == {<<"0">>, <<"2">>, <<"A">>}
IonTokens == {<<"A", "*">>, <<"A", "x">>}

\* index, ion, and then the numbers 1, 2, 3, ...
LineTokens(idx, ion) ==
    <<idx, ion>> \o [i \in 1..(MaxTokens - 2) |-> <<Digits[(i % Len(Digits)) + 1]>>]

DataLine(n, idx, ion) == Join(SubSeq(LineTokens(idx, ion), 1, n)) \o <<"\n">>

\* a line of n tokens whose fifth token is no number
BadLine(n) ==
    Join([i \in 1..n |-> IF i = 5 THEN <<"A">> ELSE LineTokens(<<"0">>, <<"A">>)[i]])
        \o <<"\n">>

Lines ==
    {DataLine(n, idx, ion) : n \in 1..MaxTokens, idx \in IndexTokens, ion \in IonTokens}
    \cup {BadLine(TokenCount), BadLine(FieldsRead)}
    \cup {<<"\n">>, <<" ", "\n">>,
          <<"#">> \o DataLine(TokenCount - 1, <<"0">>, <<"A">>),
          <<" ", "#", " ">> \o DataLine(FieldsRead, <<"0">>, <<"A">>),
          <<" ", " ">> \o DataLine(FieldsRead, <<"0">>, <<"A">>)}

Files == UNION {[1..n -> Lines] : n \in 0..MaxLines}

InitLoad ==
    /\ ComponentIdle
    /\ file \in Files /\ lineno = 0 /\ components_to_add = <<>>
    /\ arr_ion = <<>> /\ arr_z = <<>> /\ arr_b = <<>>
    /\ arr_logN = <<>> /\ arr_rf = <<>> /\ num = 0
    /\ pars = <<>> /\ pc = "reading"

NextLoad == ReadLine \/ ReturnParameters

SpecLoad == InitLoad /\ [][NextLoad]_vars

----------------------------------------------------------------------------
(* components_from_array *)

\* the loop body with numpy's abs applied to b
AddArrayComponent_AbsB(p, ion, n, vals) ==
    LET p1 == ParametersAdd(p, ParName(FieldZ, n, ion), vals[1])
        p2 == ParametersAdd(p1, ParName(FieldB, n, ion), Abs(vals[2]))
        p3 == ParametersAdd(p2, ParName(FieldN, n, ion), vals[3])
    IN  ParametersAdd(p3, ParName(FieldRf, n, ion), vals[4])

\* the loop body: four entries for the component numbered n
AddArrayComponent(p, ion, n, vals) ==
    LET p1 == ParametersAdd(p, ParName(FieldZ, n, ion), vals[1])
        p2 == ParametersAdd(p1, ParName(FieldB, n, ion), vals[2])
        p3 == ParametersAdd(p2, ParName(FieldN, n, ion), vals[3])
    IN  ParametersAdd(p3, ParName(FieldRf, n, ion), vals[4])

Min(x, y) == IF x < y THEN x ELSE y

\* len(list(zip(z, b, logN, rf)))
ZipLen == Min(Min(Len(arr_z), Len(arr_b)), Min(Len(arr_logN), Len(arr_rf)))

\* one pass of the loop over enumerate(zip(z, b, logN, rf))
ArrayLoop ==
    /\ pc = "looping"
    /\ num < ZipLen
    /\ pars' = AddArrayComponent(pars, arr_ion, num,
                   <<arr_z[num + 1], arr_b[num + 1], arr_logN[num + 1], arr_rf[num + 1]>>)
    /\ num' = num + 1
    /\ UNCHANGED <<compVars, loadVars, arr_ion, arr_z, arr_b, arr_logN, arr_rf, pc>>

ArrayReturn ==
    /\ pc = "looping"
    /\ num = ZipLen
    /\ pc' = "done"
    /\ UNCHANGED <<compVars, loadVars, arrVars, pars>>

ArrayIons == {<<"A">>, <<"A", "*">>}
ArrayVals == {-3, One + 1}      \* a negative b, an rf above 1

SeqsUpTo(S, n) == UNION {[1..k -> S] : k \in 0..n}

InitArray ==
    /\ ComponentIdle
    /\ file = <<>> /\ lineno = 0 /\ components_to_add = <<>>
    /\ arr_ion \in ArrayIons
    /\ arr_z \in SeqsUpTo(PlainVals, MaxN)
    /\ arr_b \in SeqsUpTo(ArrayVals, MaxN)
    /\ arr_logN \in SeqsUpTo(PlainVals, MaxN)
    /\ arr_rf \in SeqsUpTo(ArrayVals, MaxN)
    /\ num = 0
    /\ pars = <<>> /\ pc = "looping"

NextArray == ArrayLoop \/ ArrayReturn

SpecArray == InitArray /\ [][NextArray]_vars

----------------------------------------------------------------------------
(* Properties of load_components_from_file, checked under SpecLoad *)

LineTokensOf(l) == StrSplit(StrStrip(l))

\* neither blank nor a comment
IsDataLine(l) == StrStrip(l) # <<>> /\ StrStrip(l)[1] # "#"

\* a data line of the documented format: 10 tokens, index ion and 8 numbers
IsFormatLine(l) ==
    /\ IsDataLine(l)
    /\ Len(LineTokensOf(l)) = 10
    /\ \A k \in (1..10) \ {2} : IsNumber(LineTokensOf(l)[k])

HasEntry(name, value, err) ==
    \E k \in 1..Len(pars) :
        pars[k] = [name |-> name, value |-> value, stderr |-> <<err>>]

\* C4: every line of the documented 10-token format adds the four entries
\* z<index>_<ion>, b<index>_<ion>, logN<index>_<ion>, rf<index>_<ion> with the
\* parsed values and the parsed uncertainties as stderr.
C4_FormatLinesLoaded ==
    pc = "done" =>
        \A i \in 1..Len(file) :
            IsFormatLine(file[i]) =>
                LET t == LineTokensOf(file[i])
                    n == ParseInt(t[1])
                    ion == ReplaceStar(t[2])
                IN  /\ HasEntry(ParName(FieldZ, n, ion), ParseFloat(t[3]), ParseFloat(t[4]))
                    /\ HasEntry(ParName(FieldB, n, ion), ParseFloat(t[5]), ParseFloat(t[6]))
                    /\ HasEntry(ParName(FieldN, n, ion), ParseFloat(t[7]), ParseFloat(t[8]))
                    /\ HasEntry(ParName(FieldRf, n, ion), ParseFloat(t[9]), ParseFloat(t[10]))

\* C5: a data line whose token count differs from 10 is skipped without
\* raising and adds nothing, and the lines after it are still processed: an
\* exception is raised only by a line of 10 tokens, only lines of 10 tokens
\* add a component, and a load that returns has consumed every line.
C5_WrongCountSkipped ==
    /\ pc \in {"IndexError", "ValueError"} => Len(LineTokensOf(file[lineno])) = 10
    /\ pc = "done" => lineno = Len(file)
    /\ Len(components_to_add) <=
           Cardinality({i \in 1..lineno :
                            IsDataLine(file[i]) /\ Len(LineTokensOf(file[i])) = 10})

\* the (index, ion label) pairs of the lines of the documented format
FormatPairs ==
    {<<ParseInt(LineTokensOf(file[i])[1]), LineTokensOf(file[i])[2]>> :
        i \in {j \in 1..Len(file) : IsFormatLine(file[j])}}

----------------------------------------------------------------------------
(* Properties of components_from_array, checked under SpecArray *)

EqualLengths ==
    /\ Len(arr_b) = Len(arr_z) /\ Len(arr_logN) = Len(arr_z)
    /\ Len(arr_rf) = Len(arr_z)

Entry(name, value) == [name |-> name, value |-> value, stderr |-> <<>>]

C7_NamesSanitized ==
    \A k \in 1..Len(pars) :
        /\ \A j \in 1..Len(pars[k].name) : pars[k].name[j] # "*"
        /\ pc \in {"looping", "done"} /\ arr_ion # <<>> =>
              \E f \in {FieldZ, FieldB, FieldN, FieldRf}, n \in 0..MaxN :
                  pars[k].name = ParName(f, n, ReplaceStar(arr_ion))

BridgeIdle ==
    /\ file = <<>> /\ lineno = 0 /\ components_to_add = <<>>
    /\ arr_ion = <<>> /\ arr_z = <<>> /\ arr_b = <<>>
    /\ arr_logN = <<>> /\ arr_rf = <<>> /\ num = 0
    /\ pars = <<>> /\ pc = "idle"

Init == ComponentInit /\ BridgeIdle

Next ==
    \/ SetZ \/ SetB \/ SetLogN \/ SetRf
    \/ SetTieZ \/ SetTieB \/ SetTieN \/ SetTieRf
    \/ SetVarZ \/ SetVarB \/ SetVarN \/ SetVarRf
    \/ SetOption \/ GetOption

Spec == Init /\ [][Next]_vars

----------------------------------------------------------------------------
(* Properties of Component, checked under Spec *)

\* C1: the stored b is never negative, and when the last b supplied (to the
\* constructor or to the b setter) was negative the stored b is its absolute
\* value.
C1_BNeverNegative == b >= 0 /\ (b_in < 0 => b = Abs(b_in))

\* C2: the stored rf lies in [0, 1] in every reachable state.
C2_RfInUnitInterval == 0 <= rf /\ rf <= One

\* the clamp of a real number to [0, 1]
Clamp01(val) == IF val > One THEN One ELSE IF val < 0 THEN 0 ELSE val

\* C3: an assignment rf = rf0 stores the clamp of rf0 to [0, 1] whatever rf
\* held before, and leaves z, b, logN and the options as they were.
C3_RfSetterClamps ==
    [][(call'.op = "rf" /\ nops' # nops) =>
          /\ rf' = Clamp01(call'.num)
          /\ (0 <= call'.num /\ call'.num <= One => rf' = call'.num)
          /\ z' = z /\ b' = b /\ logN' = logN
          /\ options' = options]_vars

C3_Witness ==
    /\ call.op = "rf" /\ call.num > One /\ rf = One
    /\ nops = MaxOps /\ b # 0

\* C8: setting one of the eight recognized options, by set_option or by its
\* property, stores exactly the value given, which get_option and the property
\* read back; the other options and z, b, logN, rf are unchanged, and the two
\* ways of setting have the same effect.
C8_OptionsIndependent ==
    /\ [][(call'.op \in {"property", "set_option"} /\ call'.key \in OptionKeys
              /\ nops' # nops) =>
            /\ options'[call'.key] = call'.val
            /\ get_option(options', call'.key) = call'.val
            /\ DOMAIN options' = DOMAIN options
            /\ \A k \in DOMAIN options \ {call'.key} : options'[k] = options[k]
            /\ options' = set_option(options, call'.key, call'.val)
            /\ options' = option_setter(options, call'.key, call'.val)
            /\ z' = z /\ b' = b /\ logN' = logN /\ rf' = rf]_vars
    /\ [][(call'.op = "get_option" /\ call'.key \in OptionKeys /\ nops' # nops) =>
            /\ ret' = options[call'.key]
            /\ options' = options
            /\ z' = z /\ b' = b /\ logN' = logN /\ rf' = rf]_vars

C8_Witness ==
    /\ nops = MaxOps
    /\ call.op = "set_option" /\ call.key = "tie_b" /\ call.val = "True"
    /\ options["tie_b"] = "True"
    /\ options["var_z"] = "None"

\* C10: get_option and set_option with a key outside the eight recognized names
\* fail with an error, and the option keys are exactly the eight names in every
\* reachable state.
C10_UnknownKeyRejected ==
    /\ DOMAIN options = OptionKeys
    /\ (call.op \in {"get_option", "set_option"} /\ call.key \notin OptionKeys
          => ret = "KeyError")

====
